---- MODULE Spec2Model ----
(***************************************************************************)
(* A model of the NeoPixel run-length colour engine (bitbank2/NeoPixel).   *)
(*                                                                         *)
(* The repository holds two sketches that share the engine:                *)
(*   "pulse"  src/neopixel.ino         mode 00 is MODE_PULSE               *)
(*   "gap"    src/unnamed/part_001     mode 00 is MODE_GAP                 *)
(* The variable build says which sketch is running.                        *)
(*                                                                         *)
(* Flash is modelled as a cyclic byte array of FlashSize bytes (the AVR    *)
(* program-memory pointer wraps around), the RLE program sits at address   *)
(* 0 and the bytes after it are pad bytes chosen nondeterministically, so  *)
(* that a read past the end of the program returns whatever flash holds.   *)
(***************************************************************************)
EXTENDS Integers, Sequences, FiniteSets, TLC

VARIABLES
    build,      \* which sketch: "pulse" (neopixel.ino) or "gap" (part_001)
    mem,        \* flash contents from the program start on, FlashSize bytes
    progLen,    \* declared length of the program array at the start of mem
    str,        \* the LEDSTRING structure (mystring)
    opAt,       \* history: flash address of the control byte of the loaded run
    k,          \* history: number of advances taken since that run was loaded
    last,       \* the library call just performed
    sent,       \* the colours handed to LEDSendColor by the call just performed
    wire,       \* what the call just performed did on the data line, in order
    stream      \* the locals of LEDStream: read pointer s, bOn, and the colour

vars == <<build, mem, progLen, str, opAt, k, last, sent, wire, stream>>

(***************************************************************************)
(* Program constants                                                       *)
(***************************************************************************)
MODE_MASK == 192
LENGTH_MASK == 63
MODE_PULSE == 0
MODE_GAP == 0
MODE_SIMPLE == 64
MODE_GRADIENT == 128
MODE_END == 192

(***************************************************************************)
(* Bounds of the model                                                     *)
(***************************************************************************)
MaxOps == 2        \* opcodes per generated program
MaxRaw == 2        \* length of the arbitrary byte sequences tried as programs
MaxLEDs == 7       \* longest chain (iLen)
MaxStep == 2       \* largest iStepCount handed to LEDStep
MaxStreamLen == 2  \* bytes of the streams handed to LEDStream
MaxRead == 4       \* passes of the loop of LEDStream that are followed

\* room for the longest program (as long as a 10-byte PULSE opcode, MaxOps - 1
\* 5-byte GRADIENT opcodes and the END byte) and one pad byte
FlashSize == 10 + (MaxOps - 1) * 5 + 2

Builds == {"pulse", "gap"}

(***************************************************************************)
(* 8-bit arithmetic                                                        *)
(***************************************************************************)
RECURSIVE BitAnd(_, _)
BitAnd(a, b) ==
    IF a = 0 \/ b = 0 THEN 0
    ELSE (a % 2) * (b % 2) + 2 * BitAnd(a \div 2, b \div 2)

\* byte -> signed char (two's complement, as avr-gcc converts)
ToSChar(v) == IF v > 127 THEN v - 256 ELSE v

\* int -> unsigned char
ToByte(v) == v % 256

(***************************************************************************)
(* Flash reads                                                             *)
(***************************************************************************)
\* pgm_read_byte(s): the byte at flash address a, addresses wrapping
ReadByte(m, a) == m[(a % FlashSize) + 1]

pPalettePulse ==
    << 0,0,0,  1,0,0,  0,1,0,  0,0,1,  1,1,0,  1,0,1,  0,1,1,  1,1,1,
       0,0,0,  8,0,0,  0,8,0,  0,0,8,  8,8,0,  8,0,8,  0,8,8,  8,8,8,
       0,0,0,  16,0,0, 0,16,0, 0,0,16, 16,16,0, 16,0,16, 0,16,16, 16,16,16 >>

pPaletteGap ==
    << 0,0,0,  32,0,0,  0,32,0,  0,0,32,  32,32,0,  32,0,32,  0,32,32,  32,32,32 >>

pPalette(bld) == IF bld = "pulse" THEN pPalettePulse ELSE pPaletteGap

\* pgm_read_byte(pPalette + j); past the table the read returns the flash
\* that follows it (the program arrays are laid out after the palette)
PaletteByte(bld, m, j) ==
    IF j < Len(pPalette(bld)) THEN pPalette(bld)[j + 1]
    ELSE ReadByte(m, j - Len(pPalette(bld)))

(***************************************************************************)
(* LEDSTRING                                                               *)
(***************************************************************************)
\* no call of LEDStream is in progress
NoStream == [ s |-> 0, bOn |-> 0, r |-> 0, g |-> 0, b |-> 0 ]

\* memset(pString, 0, sizeof(LEDSTRING))
ZeroString ==
    [ iLen |-> 0, lastOP |-> 0, pRLEStart |-> 0, pRLE |-> 0, iCount |-> 0,
      iDir |-> 0, r |-> 0, g |-> 0, b |-> 0, dr |-> 0, dg |-> 0, db |-> 0,
      sr |-> 0, sg |-> 0, sb |-> 0, er |-> 0, eg |-> 0, eb |-> 0 ]

\* the palette load shared by MODE_SIMPLE and MODE_GRADIENT: the palette index
\* is the byte at address a
LoadPalette(bld, m, s, a) ==
    [ s EXCEPT !.r = PaletteByte(bld, m, 3 * ReadByte(m, a)),
               !.g = PaletteByte(bld, m, 3 * ReadByte(m, a) + 1),
               !.b = PaletteByte(bld, m, 3 * ReadByte(m, a) + 2) ]

\* the three signed deltas at addresses a, a+1, a+2
LoadDeltas(m, s, a) ==
    [ s EXCEPT !.dr = ToSChar(ReadByte(m, a)),
               !.dg = ToSChar(ReadByte(m, a + 1)),
               !.db = ToSChar(ReadByte(m, a + 2)) ]

\* case MODE_PULSE of LEDInit: start colour, deltas, end colour at a .. a+8
LoadPulse(m, s, a) ==
    [ LoadDeltas(m, s, a + 3) EXCEPT
        !.sr = ReadByte(m, a),     !.r = ReadByte(m, a),
        !.sg = ReadByte(m, a + 1), !.g = ReadByte(m, a + 1),
        !.sb = ReadByte(m, a + 2), !.b = ReadByte(m, a + 2),
        !.er = ReadByte(m, a + 6),
        !.eg = ReadByte(m, a + 7),
        !.eb = ReadByte(m, a + 8),
        !.iDir = 0 ]

\* LEDInit that takes the run length from the low five bits only
LEDInitShortField(bld, m, pRLE, iNumLEDs) ==
    LET b  == ReadByte(m, pRLE)
        op == BitAnd(b, MODE_MASK)
        s0 == [ ZeroString EXCEPT !.pRLEStart = pRLE,
                                  !.iLen = iNumLEDs,
                                  !.iCount = BitAnd(b, 31),
                                  !.lastOP = op ]
        a  == pRLE + 1
    IN  IF op = MODE_PULSE /\ bld = "pulse"
          THEN [ LoadPulse(m, s0, a) EXCEPT !.pRLE = (a + 9) % FlashSize ]
        ELSE IF op = MODE_SIMPLE
          THEN [ LoadPalette(bld, m, s0, a) EXCEPT !.pRLE = (a + 1) % FlashSize ]
        ELSE IF op = MODE_GRADIENT
          THEN [ LoadDeltas(m, LoadPalette(bld, m, s0, a), a + 1)
                   EXCEPT !.pRLE = (a + 4) % FlashSize ]
        ELSE [ s0 EXCEPT !.pRLE = a % FlashSize ]

\* LEDInit(pRLE, pString, iNumLEDs)
LEDInit(bld, m, pRLE, iNumLEDs) ==
    LET b  == ReadByte(m, pRLE)
        op == BitAnd(b, MODE_MASK)
        s0 == [ ZeroString EXCEPT !.pRLEStart = pRLE,
                                  !.iLen = iNumLEDs,
                                  !.iCount = BitAnd(b, LENGTH_MASK),
                                  !.lastOP = op ]
        a  == pRLE + 1
    IN  IF op = MODE_PULSE /\ bld = "pulse"
          THEN [ LoadPulse(m, s0, a) EXCEPT !.pRLE = (a + 9) % FlashSize ]
        ELSE IF op = MODE_SIMPLE
          THEN [ LoadPalette(bld, m, s0, a) EXCEPT !.pRLE = (a + 1) % FlashSize ]
        ELSE IF op = MODE_GRADIENT
          THEN [ LoadDeltas(m, LoadPalette(bld, m, s0, a), a + 1)
                   EXCEPT !.pRLE = (a + 4) % FlashSize ]
        ELSE [ s0 EXCEPT !.pRLE = a % FlashSize ]

\* ContinueRun with the gradient sum saturated at 0 and 255 instead of wrapped
ContinueRunClamped(s) ==
    LET Clamp(v) == IF v > 255 THEN 255 ELSE IF v < 0 THEN 0 ELSE v
    IN  IF s.lastOP = MODE_GRADIENT
          THEN [ s EXCEPT !.r = Clamp(s.r + s.dr),
                          !.g = Clamp(s.g + s.dg),
                          !.b = Clamp(s.b + s.db),
                          !.iCount = s.iCount - 1 ]
          ELSE [ s EXCEPT !.iCount = s.iCount - 1 ]

\* ContinueRun that adds the deltas whatever the mode of the run
ContinueRunAnyMode(s) ==
    [ s EXCEPT !.r = ToByte(s.r + s.dr),
               !.g = ToByte(s.g + s.dg),
               !.b = ToByte(s.b + s.db),
               !.iCount = s.iCount - 1 ]

\* the continuation branch shared by LEDStep and LEDShow: iCount > 0
ContinueRun(s) ==
    IF s.lastOP = MODE_GRADIENT
      THEN [ s EXCEPT !.r = ToByte(s.r + s.dr),
                      !.g = ToByte(s.g + s.dg),
                      !.b = ToByte(s.b + s.db),
                      !.iCount = s.iCount - 1 ]
      ELSE [ s EXCEPT !.iCount = s.iCount - 1 ]

\* DecodeAt without the restart: the END byte is decoded where it stands
DecodeAtNoRestart(m, s) == s.pRLE

\* the address of the control byte the next decode uses: the byte at the
\* cursor, or the first byte of the program when that byte is MODE_END
DecodeAt(m, s) ==
    IF ReadByte(m, s.pRLE) = MODE_END THEN s.pRLEStart ELSE s.pRLE

\* StepDecode that keeps the deltas running after a palette load: the colour
\* of a MODE_SIMPLE run is the palette colour plus the deltas left behind
StepDecodeStale(bld, m, s) ==
    LET c  == DecodeAt(m, s)
        b  == ReadByte(m, c)
        op == BitAnd(b, MODE_MASK)
        s0 == [ s EXCEPT !.iCount = BitAnd(b, LENGTH_MASK), !.lastOP = op ]
        a  == c + 1
    IN  IF op = MODE_GAP /\ bld = "gap"
          THEN [ s0 EXCEPT !.r = 0, !.g = 0, !.b = 0, !.pRLE = a % FlashSize ]
        ELSE IF op = MODE_SIMPLE
          THEN [ LoadPalette(bld, m, s0, a) EXCEPT
                   !.r = ToByte(PaletteByte(bld, m, 3 * ReadByte(m, a)) + s.dr),
                   !.pRLE = (a + 1) % FlashSize ]
        ELSE IF op = MODE_GRADIENT
          THEN [ LoadDeltas(m, LoadPalette(bld, m, s0, a), a + 1)
                   EXCEPT !.pRLE = (a + 4) % FlashSize ]
        ELSE [ s0 EXCEPT !.pRLE = a % FlashSize ]

\* StepDecode with the MODE_GAP case left out
StepDecodeNoGap(bld, m, s) ==
    LET c  == DecodeAt(m, s)
        b  == ReadByte(m, c)
        op == BitAnd(b, MODE_MASK)
        s0 == [ s EXCEPT !.iCount = BitAnd(b, LENGTH_MASK), !.lastOP = op ]
        a  == c + 1
    IN  IF op = MODE_SIMPLE
          THEN [ LoadPalette(bld, m, s0, a) EXCEPT !.pRLE = (a + 1) % FlashSize ]
        ELSE IF op = MODE_GRADIENT
          THEN [ LoadDeltas(m, LoadPalette(bld, m, s0, a), a + 1)
                   EXCEPT !.pRLE = (a + 4) % FlashSize ]
        ELSE [ s0 EXCEPT !.pRLE = a % FlashSize ]

\* the decode branch of LEDStep: step into the next operation
StepDecode(bld, m, s) ==
    LET c  == DecodeAt(m, s)
        b  == ReadByte(m, c)
        op == BitAnd(b, MODE_MASK)
        s0 == [ s EXCEPT !.iCount = BitAnd(b, LENGTH_MASK), !.lastOP = op ]
        a  == c + 1
    IN  IF op = MODE_GAP /\ bld = "gap"
          THEN [ s0 EXCEPT !.r = 0, !.g = 0, !.b = 0, !.pRLE = a % FlashSize ]
        ELSE IF op = MODE_SIMPLE
          THEN [ LoadPalette(bld, m, s0, a) EXCEPT !.pRLE = (a + 1) % FlashSize ]
        ELSE IF op = MODE_GRADIENT
          THEN [ LoadDeltas(m, LoadPalette(bld, m, s0, a), a + 1)
                   EXCEPT !.pRLE = (a + 4) % FlashSize ]
        ELSE [ s0 EXCEPT !.pRLE = a % FlashSize ]

\* StepOnce that decodes the next opcode one pixel early
StepOnceEarly(bld, m, s) ==
    IF s.iCount > 1 THEN ContinueRun(s) ELSE StepDecode(bld, m, s)

\* StepOnce that counts a gradient run down once more at iCount = 0
StepOnceUnguarded(bld, m, s) ==
    IF s.iCount > 0 \/ s.lastOP = MODE_GRADIENT
      THEN ContinueRun(s)
      ELSE StepDecode(bld, m, s)

\* one iteration of the loop of LEDStep
StepOnce(bld, m, s) ==
    IF s.iCount > 0 THEN ContinueRun(s) ELSE StepDecode(bld, m, s)

\* LEDStep with the loop test off by one (iStep <= iStepCount)
RECURSIVE LEDStepOneMore(_, _, _, _)
LEDStepOneMore(bld, m, s, iStepCount) ==
    IF iStepCount < 0 THEN s
    ELSE LEDStepOneMore(bld, m, StepOnce(bld, m, s), iStepCount - 1)

\* LEDStep(pString, iStepCount)
RECURSIVE LEDStep(_, _, _, _)
LEDStep(bld, m, s, iStepCount) ==
    IF iStepCount <= 0 THEN s
    ELSE LEDStep(bld, m, StepOnce(bld, m, s), iStepCount - 1)

\* the decode branch repeated inside LEDShow, on the local copy
ShowDecode(bld, m, s) ==
    LET c  == IF ReadByte(m, s.pRLE) = MODE_END THEN s.pRLEStart ELSE s.pRLE
        b  == ReadByte(m, c)
        op == BitAnd(b, MODE_MASK)
        s0 == [ s EXCEPT !.iCount = BitAnd(b, LENGTH_MASK), !.lastOP = op ]
        a  == c + 1
    IN  IF op = MODE_GAP /\ bld = "gap"
          THEN [ s0 EXCEPT !.r = 0, !.g = 0, !.b = 0, !.pRLE = a % FlashSize ]
        ELSE IF op = MODE_SIMPLE
          THEN [ LoadPalette(bld, m, s0, a) EXCEPT !.pRLE = (a + 1) % FlashSize ]
        ELSE IF op = MODE_GRADIENT
          THEN [ LoadDeltas(m, LoadPalette(bld, m, s0, a), a + 1)
                   EXCEPT !.pRLE = (a + 4) % FlashSize ]
        ELSE [ s0 EXCEPT !.pRLE = a % FlashSize ]

\* ShowAdvance that leaves the gradient update out of the walk
ShowAdvanceNoGradient(bld, m, s) ==
    IF s.iCount > 0 THEN [ s EXCEPT !.iCount = s.iCount - 1 ]
    ELSE ShowDecode(bld, m, s)

\* the LEDStep logic repeated inside the pixel loop of LEDShow
ShowAdvance(bld, m, s) ==
    IF s.iCount > 0 THEN ContinueRun(s) ELSE ShowDecode(bld, m, s)

(***************************************************************************)
(* The data line                                                           *)
(***************************************************************************)
\* what the data line carries: the waveform of a 1 bit (SPI pattern 0xfc, or
\* long high / short low when bit-banged), the waveform of a 0 bit (0xe0, or
\* short high / long low), and the latch pause delayMicroseconds(9); STEP
\* marks the place where LEDShow runs its copy of the LEDStep logic
ONE == "1"
ZERO == "0"
LATCH == "latch"
STEP == "step"

\* SendBits that shifts the other way and tests the low bit (LSB first)
RECURSIVE SendBitsLsbFirst(_, _, _)
SendBitsLsbFirst(b, i, w) ==
    IF i < 8
      THEN SendBitsLsbFirst(b \div 2, i + 1,
                            Append(w, IF b % 2 # 0 THEN ONE ELSE ZERO))
      ELSE w

\* the loop of sendByte from iteration i on: test b & 0x80, then b <<= 1
RECURSIVE SendBits(_, _, _)
SendBits(b, i, w) ==
    IF i < 8
      THEN SendBits(ToByte(b * 2), i + 1,
                    Append(w, IF BitAnd(b, 128) # 0 THEN ONE ELSE ZERO))
      ELSE w

\* what sendByte puts on the line for each value of its argument
ByteWaves == [ b \in 0..255 |-> SendBits(b, 0, << >>) ]

\* sendByte(b)
sendByte(b) == ByteWaves[b]

\* LEDSendColor(r, g, b)
LEDSendColor(r, g, b) == sendByte(g) \o sendByte(r) \o sendByte(b)

\* ShowLoop with the loop test off by one (i <= iLen)
RECURSIVE ShowLoopOneMore(_, _, _, _, _, _)
ShowLoopOneMore(bld, m, loc, i, out, w) ==
    IF i <= loc.iLen
      THEN ShowLoopOneMore(bld, m, ShowAdvance(bld, m, loc), i + 1,
                           Append(out, <<loc.r, loc.g, loc.b>>),
                           w \o LEDSendColor(loc.r, loc.g, loc.b) \o <<STEP>>)
      ELSE [ loc |-> loc, out |-> out, wire |-> Append(w, LATCH) ]

\* ShowLoop with the latch delay inside the loop, after every pixel
RECURSIVE ShowLoopLatchInside(_, _, _, _, _, _)
ShowLoopLatchInside(bld, m, loc, i, out, w) ==
    IF i < loc.iLen
      THEN ShowLoopLatchInside(bld, m, ShowAdvance(bld, m, loc), i + 1,
                               Append(out, <<loc.r, loc.g, loc.b>>),
                               w \o LEDSendColor(loc.r, loc.g, loc.b)
                                 \o <<STEP, LATCH>>)
      ELSE [ loc |-> loc, out |-> out, wire |-> w ]

\* the pixel loop of LEDShow from pixel i on and the delay after it: loc is
\* the local copy `string`, out the colours handed to LEDSendColor so far,
\* w what went over the data line so far
RECURSIVE ShowLoop(_, _, _, _, _, _)
ShowLoop(bld, m, loc, i, out, w) ==
    IF i < loc.iLen
      THEN ShowLoop(bld, m, ShowAdvance(bld, m, loc), i + 1,
                    Append(out, <<loc.r, loc.g, loc.b>>),
                    w \o LEDSendColor(loc.r, loc.g, loc.b) \o <<STEP>>)
      ELSE [ loc |-> loc, out |-> out, wire |-> Append(w, LATCH) ]

\* LEDShow that renders from the start of the program, not from the string
LEDShowFromStart(bld, m, s) ==
    ShowLoop(bld, m, LEDInit(bld, m, s.pRLEStart, s.iLen), 0, << >>, << >>)

\* LEDShow(pString): works on a copy of *pString
LEDShow(bld, m, s) == ShowLoop(bld, m, s, 0, << >>, << >>)

\* the bound test of LEDPulse on the red and green channels
Crossed(sv, ev, c) ==
    \/ sv < ev /\ (c > ev \/ c < sv)
    \/ sv > ev /\ (c < ev \/ c > sv)

\* the C truth value of a condition
CBool(p) == IF p THEN 1 ELSE 0

\* the bound test of LEDPulse on the blue channel, as written:
\*   sb < eb && b > (eb || b < sb),  sb > eb && b < (eb || b > sb)
CrossedBlue(sv, ev, c) ==
    \/ sv < ev /\ c > CBool(ev # 0 \/ c < sv)
    \/ sv > ev /\ c < CBool(ev # 0 \/ c > sv)

\* LEDPulse that flips the direction on a crossing but stores the candidate
\* instead of the bound
LEDPulseNoClamp(s) ==
    LET r == IF s.iDir = 0 THEN s.r + s.dr ELSE s.r - s.dr
        g == IF s.iDir = 0 THEN s.g + s.dg ELSE s.g - s.dg
        b == IF s.iDir = 0 THEN s.b + s.db ELSE s.b - s.db
        bChangeDir == \/ Crossed(s.sr, s.er, r)
                      \/ Crossed(s.sg, s.eg, g)
                      \/ CrossedBlue(s.sb, s.eb, b)
    IN  [ s EXCEPT !.r = ToByte(r), !.g = ToByte(g), !.b = ToByte(b),
                   !.iDir = IF bChangeDir THEN 1 - s.iDir ELSE s.iDir ]

\* LEDPulse(pString)
LEDPulse(s) ==
    LET r == IF s.iDir = 0 THEN s.r + s.dr ELSE s.r - s.dr
        g == IF s.iDir = 0 THEN s.g + s.dg ELSE s.g - s.dg
        b == IF s.iDir = 0 THEN s.b + s.db ELSE s.b - s.db
        bChangeDir == \/ Crossed(s.sr, s.er, r)
                      \/ Crossed(s.sg, s.eg, g)
                      \/ CrossedBlue(s.sb, s.eb, b)
    IN  IF bChangeDir
          THEN IF s.iDir = 0
                 THEN [ s EXCEPT !.r = s.er, !.g = s.eg, !.b = s.eb, !.iDir = 1 ]
                 ELSE [ s EXCEPT !.r = s.sr, !.g = s.sg, !.b = s.sb, !.iDir = 0 ]
          ELSE [ s EXCEPT !.r = ToByte(r), !.g = ToByte(g), !.b = ToByte(b) ]

(***************************************************************************)
(* Programs the model runs                                                 *)
(***************************************************************************)
\* mode 00 with no parameter bytes, length fields 0 and 1
GapOps == { <<0>>, <<1>> }

\* MODE_SIMPLE | F, palette index
SolidOps == { <<64, 1>>, <<65, 2>> }

\* MODE_GRADIENT | F, palette index, dr, dg, db (deltas as bytes: 255 is -1,
\* 128 is -128, 127 is +127)
GradientOps == { <<129, 1, 1, 0, 255>>, <<130, 7, 127, 128, 255>> }

\* mode bits 11 with a non-zero length field
EndLikeOps == { <<193>> }

\* MODE_PULSE | F, start r,g,b, delta r,g,b, end r,g,b; the last one is
\* pPulse10 with the length field 0
PulseOps ==
    { <<2, 0,0,3, 1,0,255, 3,0,0>>, <<0, 2,5,0, 255,0,1, 0,5,2>>,
      <<0, 0,64,64, 1,255,0, 64,0,64>> }

\* the programs loop() switches to on a button press
ReloadPrograms(bld) ==
    { <<65, 2, 192>>, <<130, 7, 127, 128, 255, 192>> }
      \cup (IF bld = "pulse" THEN { <<2, 0,0,3, 1,0,255, 3,0,0, 192>> } ELSE {})

Opcodes == GapOps \cup SolidOps \cup GradientOps \cup EndLikeOps

\* what follows the PULSE opcode of a pulse program: nothing, as in the
\* pPulse programs, or one SOLID opcode
PulseTails == { << >>, <<64, 1>> }

\* the pulse programs of the sketch that has MODE_PULSE
PulsePrograms(bld) ==
    IF bld = "pulse"
      THEN { op \o tail \o <<MODE_END>> : op \in PulseOps, tail \in PulseTails }
      ELSE {}

RECURSIVE Flatten(_)
Flatten(ops) == IF ops = << >> THEN << >> ELSE Head(ops) \o Flatten(Tail(ops))

\* one to MaxOps opcodes followed by the MODE_END byte, and the pulse programs
BuiltPrograms(bld) ==
    { first \o Flatten(ops) \o <<MODE_END>> :
        first \in Opcodes,
        ops \in UNION { [1..n -> Opcodes] : n \in 0..(MaxOps - 1) } }
      \cup PulsePrograms(bld)

\* arbitrary short byte sequences
RawBytes == { 0, 65, 192, 193, 200 }
RawPrograms == UNION { [1..n -> RawBytes] : n \in 1..MaxRaw }

Programs(bld) == BuiltPrograms(bld) \cup RawPrograms

\* what flash holds after the program array
PadBytes == { 192, 1 }

Flash(p, pad) == [ i \in 1..FlashSize |-> IF i <= Len(p) THEN p[i] ELSE pad ]

\* chain lengths
Lens == { 0, MaxLEDs }

(***************************************************************************)
(* History of the loaded run                                               *)
(***************************************************************************)
\* h = [s, opAt, k] after one more iteration of the loop of LEDStep
TrackOnce(bld, m, h) ==
    [ s    |-> StepOnce(bld, m, h.s),
      opAt |-> IF h.s.iCount > 0 THEN h.opAt ELSE DecodeAt(m, h.s),
      k    |-> IF h.s.iCount > 0 THEN h.k + 1 ELSE 0 ]

RECURSIVE Track(_, _, _, _)
Track(bld, m, h, n) ==
    IF n <= 0 THEN h ELSE Track(bld, m, TrackOnce(bld, m, h), n - 1)

(***************************************************************************)
(* Actions: the calls loop() makes when it drives the string with LEDStep  *)
(***************************************************************************)
\* mystring after LEDInit(program, &mystring, n)
Loaded(bld, p, pad, n) ==
    /\ build = bld
    /\ mem = Flash(p, pad)
    /\ progLen = Len(p)
    /\ str = LEDInit(bld, Flash(p, pad), 0, n)
    /\ opAt = 0
    /\ k = 0
    /\ last = "init"
    /\ sent = << >>
    /\ wire = << >>
    /\ stream = NoStream

Init ==
    \E bld \in Builds :
      \E p \in Programs(bld), pad \in PadBytes :
        Loaded(bld, p, pad, MaxLEDs)

\* LEDInitCall without the memset: deltas, pulse bounds and direction that
\* the first opcode does not load keep their old values
LEDInitCallNoMemset ==
    \E p \in ReloadPrograms(build), n \in Lens :
      /\ mem' = Flash(p, mem[FlashSize])
      /\ progLen' = Len(p)
      /\ str' = LET i == LEDInit(build, mem', 0, n)
                IN  IF i.lastOP = MODE_SIMPLE
                      THEN [ i EXCEPT !.dr = str.dr, !.dg = str.dg, !.db = str.db,
                                      !.sr = str.sr, !.sg = str.sg, !.sb = str.sb,
                                      !.er = str.er, !.eg = str.eg, !.eb = str.eb,
                                      !.iDir = str.iDir ]
                      ELSE i
      /\ opAt' = 0
      /\ k' = 0
      /\ last' = "init"
      /\ sent' = << >>
      /\ wire' = << >>
      /\ UNCHANGED <<build, stream>>

\* loop() calls LEDInit again when a button changes the program
LEDInitCall ==
    \E p \in ReloadPrograms(build), n \in Lens :
      /\ mem' = Flash(p, mem[FlashSize])
      /\ progLen' = Len(p)
      /\ str' = LEDInit(build, mem', 0, n)
      /\ opAt' = 0
      /\ k' = 0
      /\ last' = "init"
      /\ sent' = << >>
      /\ wire' = << >>
      /\ UNCHANGED <<build, stream>>

LEDStepCall ==
    \E n \in 0..MaxStep :
      LET h == Track(build, mem, [s |-> str, opAt |-> opAt, k |-> k], n)
      IN  /\ str' = LEDStep(build, mem, str, n)
          /\ opAt' = h.opAt
          /\ k' = h.k
          /\ last' = "step"
          /\ sent' = << >>
          /\ wire' = << >>
          /\ UNCHANGED <<build, mem, progLen, stream>>

\* LEDShowCall that walks the caller's structure instead of a copy
LEDShowCallInPlace ==
    /\ \E frame \in { LEDShow(build, mem, str) } :
          /\ sent' = frame.out
          /\ wire' = frame.wire
          /\ str' = frame.loc
    /\ last' = "show"
    /\ UNCHANGED <<build, mem, progLen, opAt, k, stream>>

LEDShowCall ==
    /\ \E frame \in { LEDShow(build, mem, str) } :
          /\ sent' = frame.out
          /\ wire' = frame.wire
    /\ last' = "show"
    /\ UNCHANGED <<build, mem, progLen, str, opAt, k, stream>>

Next == LEDInitCall \/ LEDStepCall \/ LEDShowCall

Spec == Init /\ [][Next]_vars

(***************************************************************************)
(* Actions: the calls loop() makes when it drives the string with LEDPulse *)
(* (iProgram = 0, the pPulse programs of neopixel.ino)                     *)
(***************************************************************************)
\* one channel of a PULSE opcode: start, delta (as a byte), end
PulseChans ==
    { <<0, 1, 3>>, <<0, 2, 3>>, <<3, 255, 0>>, <<4, 254, 1>>, <<2, 0, 2>>,
      <<0, 255, 3>> }

\* length fields of the PULSE opcodes tried (the pPulse programs use 0x3b)
PulseFields == { 1, 59 }

PulseProgram(F, cr, cg, cb) ==
    << MODE_PULSE + F, cr[1], cg[1], cb[1], cr[2], cg[2], cb[2],
       cr[3], cg[3], cb[3], MODE_END >>

InitPulse ==
    \E F \in PulseFields, cr \in PulseChans, cg \in PulseChans, cb \in PulseChans :
        Loaded("pulse", PulseProgram(F, cr, cg, cb), MODE_END, MaxLEDs)

LEDPulseCall ==
    /\ build = "pulse"
    /\ str' = LEDPulse(str)
    /\ last' = "pulse"
    /\ sent' = << >>
    /\ wire' = << >>
    /\ UNCHANGED <<build, mem, progLen, opAt, k, stream>>

NextPulse == LEDPulseCall \/ LEDShowCall

SpecPulse == InitPulse /\ [][NextPulse]_vars

\* loop() calls LEDPulse once in every pass of its while loop, for ever
SpecPulseFair == InitPulse /\ [][NextPulse]_vars /\ WF_vars(LEDPulseCall)

(***************************************************************************)
(* Actions: LEDInit and LEDStep on programs that start with any byte       *)
(***************************************************************************)
\* a control byte b and ten bytes after it: enough parameter bytes for every
\* mode, small runs after them, and the MODE_END byte
ByteProgram(b) == << b, 1, 1, 0, 255, 0, 1, 3, 2, 1, MODE_END >>

InitAnyByte ==
    \E bld \in Builds, b \in 0..255 :
        Loaded(bld, ByteProgram(b), MODE_END, MaxLEDs)

NextAnyByte == LEDStepCall

SpecAnyByte == InitAnyByte /\ [][NextAnyByte]_vars

(***************************************************************************)
(* Actions: LEDSendColor called on its own, for every byte value           *)
(***************************************************************************)
\* the colours handed to LEDSendColor: every byte value on each channel, the
\* other two channels all bits clear and all bits set
SendColours ==
    { <<x, 0, 255>> : x \in 0..255 }
      \cup { <<255, x, 0>> : x \in 0..255 }
      \cup { <<0, 255, x>> : x \in 0..255 }

\* after setup(): mystring is a zeroed static, nothing was sent
InitWire ==
    /\ build \in Builds
    /\ mem = Flash(<<MODE_END>>, MODE_END)
    /\ progLen = 1
    /\ str = ZeroString
    /\ opAt = 0
    /\ k = 0
    /\ last = "setup"
    /\ sent = << >>
    /\ wire = << >>
    /\ stream = NoStream

LEDSendColorCall ==
    \E c \in SendColours :
      /\ sent' = << c >>
      /\ wire' = LEDSendColor(c[1], c[2], c[3])
      /\ last' = "send"
      /\ UNCHANGED <<build, mem, progLen, str, opAt, k, stream>>

NextWire == LEDSendColorCall

SpecWire == InitWire /\ [][NextWire]_vars

(***************************************************************************)
(* Actions: LEDStream, one pass of its while loop at a time                *)
(***************************************************************************)
\* stream bytes: high nibble pixels off, low nibble pixels on
StreamBytes == { 0, 16, 1, 33, 18, 31, 240 }

\* the arrays handed to LEDStream
Streams ==
    UNION { [ 1..n -> StreamBytes ] : n \in 1..MaxStreamLen }

\* what the flash holds behind the array
StreamPads == { 0, 17 }

\* the colours handed to LEDStream
StreamColours == { <<255, 0, 0>>, <<1, 2, 3>> }

\* for (i=0; i<n; i++) LEDSendColor(c): n more colours after out
RECURSIVE SendTimes(_, _, _)
SendTimes(out, c, n) ==
    IF n <= 0 THEN out ELSE SendTimes(Append(out, c), c, n - 1)

\* one pass that sends the pixels "on" before the pixels "off"
StreamPassOnFirst(temp, c) ==
    SendTimes(SendTimes(<< >>, c, BitAnd(temp, 15)), <<0, 0, 0>>, temp \div 16)

\* one pass that sends nothing once the "on" length is zero
StreamPassStopEarly(temp, c) ==
    IF BitAnd(temp, 15) = 0 THEN << >>
    ELSE SendTimes(SendTimes(<< >>, <<0, 0, 0>>, temp \div 16), c, BitAnd(temp, 15))

\* the colours one pass of the loop sends for the byte temp: bOff = temp >> 4
\* times black, then bOn = temp & 0xf times the colour c
StreamPass(temp, c) ==
    SendTimes(SendTimes(<< >>, <<0, 0, 0>>, temp \div 16), c, BitAnd(temp, 15))

\* the data line over the LEDSendColor calls of the colours cs
RECURSIVE SendAll(_, _, _)
SendAll(cs, i, w) ==
    IF i > Len(cs) THEN w
    ELSE SendAll(cs, i + 1, w \o LEDSendColor(cs[i][1], cs[i][2], cs[i][3]))

\* entry of LEDStream(pStream, r, g, b): s = pStream, bOn = 1
InitStream ==
    \E p \in Streams, pad \in StreamPads, c \in StreamColours :
      /\ build = "pulse"
      /\ mem = Flash(p, pad)
      /\ progLen = Len(p)
      /\ str = ZeroString
      /\ opAt = 0
      /\ k = 0
      /\ last = "stream"
      /\ sent = << >>
      /\ wire = << >>
      /\ stream = [ s |-> 0, bOn |-> 1, r |-> c[1], g |-> c[2], b |-> c[3] ]

\* one pass of while (bOn)
LEDStreamPass ==
    /\ stream.bOn # 0
    /\ stream.s < MaxRead
    /\ \E pass \in { StreamPass(ReadByte(mem, stream.s),
                                 <<stream.r, stream.g, stream.b>>) } :
          /\ sent' = sent \o pass
          /\ wire' = SendAll(pass, 1, wire)
    /\ stream' = [ stream EXCEPT !.s = stream.s + 1,
                                  !.bOn = BitAnd(ReadByte(mem, stream.s), 15) ]
    /\ last' = "stream"
    /\ UNCHANGED <<build, mem, progLen, str, opAt, k>>

NextStream == LEDStreamPass

SpecStream == InitStream /\ [][NextStream]_vars

\* the processor keeps running the loop
SpecStreamFair == InitStream /\ [][NextStream]_vars /\ WF_vars(LEDStreamPass)

(***************************************************************************)
(* Notions the properties are stated with                                  *)
(***************************************************************************)
Colour(s) == <<s.r, s.g, s.b>>

ModeOf(b) == BitAnd(b, MODE_MASK)
FieldOf(b) == BitAnd(b, LENGTH_MASK)

\* entry i of the palette table of the running sketch
PaletteColour(i) ==
    << PaletteByte(build, mem, 3 * i), PaletteByte(build, mem, 3 * i + 1),
       PaletteByte(build, mem, 3 * i + 2) >>

\* the control byte of the loaded run and the parameter bytes after it
LoadedByte == ReadByte(mem, opAt)
LoadedParam(j) == ReadByte(mem, opAt + j)

\* parameter bytes of a GAP / SOLID / GRADIENT opcode
ParamCount(b) ==
    IF ModeOf(b) = MODE_SIMPLE THEN 1 ELSE IF ModeOf(b) = MODE_GRADIENT THEN 4 ELSE 0

\* the sum of the run lengths of the GAP, SOLID and GRADIENT opcodes from
\* address a up to the END byte that ends an n-byte program, -1 when the
\* bytes are not complete opcodes followed by END as the last byte
RECURSIVE RunSum(_, _, _)
RunSum(m, a, n) ==
    IF a >= n THEN -1
    ELSE IF ReadByte(m, a) = MODE_END THEN (IF a = n - 1 THEN 0 ELSE -1)
    ELSE IF ModeOf(ReadByte(m, a)) = MODE_END THEN -1
    ELSE LET rest == RunSum(m, a + 1 + ParamCount(ReadByte(m, a)), n)
         IN  IF rest < 0 THEN -1 ELSE rest + FieldOf(ReadByte(m, a)) + 1

\* one or more complete GAP, SOLID and GRADIENT opcodes followed by END
WellFormed == RunSum(mem, 0, progLen) > 0
Period == RunSum(mem, 0, progLen)

(***************************************************************************)
(* C1                                                                      *)
(***************************************************************************)
\* C1: one call of LEDShow hands exactly iLen colours to LEDSendColor, for
\* every program byte sequence and every chain length, restarts included.
C1_ShowSendsExactlyN == last = "show" => Len(sent) = str.iLen

\* a frame over a program whose first byte is END, long enough to restart
C1_Witness ==
    /\ last = "show"
    /\ ReadByte(mem, 0) = MODE_END
    /\ str.iLen = MaxLEDs
    /\ Len(sent) = MaxLEDs

(***************************************************************************)
(* C2                                                                      *)
(***************************************************************************)
\* C2: while a GRADIENT run is loaded, the colour read after k advances is
\* Palette[i] + k * delta on each channel modulo 256 (wrapping, not clamped).
C2_GradientLaw ==
    str.lastOP = MODE_GRADIENT =>
        \A ch \in 1..3 :
            Colour(str)[ch] =
                (PaletteColour(LoadedParam(1))[ch]
                   + k * ToSChar(LoadedParam(1 + ch))) % 256

\* third pixel of a gradient whose red channel has wrapped past 255 (delta
\* +127) and whose green channel has wrapped below 0 (delta -128)
C2_Witness ==
    /\ str.lastOP = MODE_GRADIENT
    /\ k = 2
    /\ str.dr = 127 /\ str.dg = -128
    /\ str.r < PaletteColour(LoadedParam(1))[1]
    /\ last = "step"

(***************************************************************************)
(* C3                                                                      *)
(***************************************************************************)
\* C3: while a SOLID run is loaded, the colour is Palette[i] on all three
\* channels, whatever deltas an earlier GRADIENT left in the state.
C3_SolidLaw ==
    str.lastOP = MODE_SIMPLE => Colour(str) = PaletteColour(LoadedParam(1))

\* second pixel of a solid run that follows a gradient
C3_Witness ==
    /\ str.lastOP = MODE_SIMPLE
    /\ k = 1
    /\ str.dr # 0
    /\ opAt > 0
    /\ last = "step"

(***************************************************************************)
(* C4                                                                      *)
(***************************************************************************)
\* C4: in a program of complete GAP, SOLID and GRADIENT opcodes, every pixel
\* of a run loaded from a mode-00 byte is black, and loading it moves the
\* cursor one byte past the control byte.
C4_GapIsBlack ==
    (WellFormed /\ ModeOf(LoadedByte) = MODE_GAP) =>
        /\ Colour(str) = <<0, 0, 0>>
        /\ k = 0 => str.pRLE = (opAt + 1) % FlashSize

\* h after n more advances of the history [s, opAt, k] of the string
Ahead(n) == Track(build, mem, [s |-> str, opAt |-> opAt, k |-> k], n)

\* C4 as amended: in the sketch that defines MODE_GAP (part_001) every pixel
\* of a run loaded from a mode-00 byte is black, whether LEDInit, LEDStep or
\* the walk of LEDShow loaded it, and loading it moves the cursor one byte.
C4_GapIsBlackInGapSketch ==
    build = "gap" =>
        /\ ModeOf(LoadedByte) = MODE_GAP =>
              /\ Colour(str) = <<0, 0, 0>>
              /\ k = 0 => str.pRLE = (opAt + 1) % FlashSize
        /\ last = "show" =>
              \A i \in 1..Len(sent) :
                  ModeOf(ReadByte(mem, Ahead(i - 1).opAt)) = MODE_GAP
                      => sent[i] = <<0, 0, 0>>

\* second pixel of a gap run stepped into after a solid run of colour
C4_Witness ==
    /\ build = "gap"
    /\ ModeOf(ReadByte(mem, 0)) = MODE_SIMPLE
    /\ opAt = 2
    /\ LoadedByte = 1
    /\ k = 1
    /\ last = "step"
    /\ Colour(str) = <<0, 0, 0>>

(***************************************************************************)
(* C5                                                                      *)
(***************************************************************************)
\* C5: for a program of complete GAP, SOLID and GRADIENT opcodes followed by
\* END, the colour P advances later equals the colour now, P being the sum
\* of the run lengths of the program.
C5_Periodic ==
    WellFormed => Colour(LEDStep(build, mem, str, Period)) = Colour(str)

\* C5 as amended: the same, for the programs whose first opcode is not a
\* mode-00 opcode when the sketch is neopixel.ino, where LEDInit reads mode 00
\* as MODE_PULSE with nine parameter bytes.
C5_PeriodicAmended ==
    (WellFormed /\ (build = "gap" \/ ModeOf(ReadByte(mem, 0)) # MODE_PULSE)) =>
        Colour(LEDStep(build, mem, str, Period)) = Colour(str)

\* a solid first opcode loaded again by the restart, the deltas of the
\* gradient that follows it still in the state
C5_Witness ==
    /\ WellFormed
    /\ opAt = 0 /\ k = 0
    /\ ModeOf(LoadedByte) = MODE_SIMPLE
    /\ str.dr # 0
    /\ last = "step"

(***************************************************************************)
(* C6                                                                      *)
(***************************************************************************)
\* C6: a run loaded with length field F has F - k pixels left after k
\* advances, so the next opcode is decoded after exactly F + 1 pixels.
C6_RunIsFieldPlusOne ==
    /\ str.iCount = FieldOf(LoadedByte) - k
    /\ k <= FieldOf(LoadedByte)

\* the last pixel of a three-pixel run (field 2)
C6_Witness ==
    /\ FieldOf(LoadedByte) = 2
    /\ k = 2
    /\ str.iCount = 0
    /\ last = "step"

(***************************************************************************)
(* C7                                                                      *)
(***************************************************************************)
\* C7: when the run loaded is the first opcode of the program (as after the
\* END byte was read), cursor, remaining length, mode and colour are those
\* LEDInit produces for the program.
C7_RestartIsInit ==
    (k = 0 /\ opAt = str.pRLEStart /\ ModeOf(ReadByte(mem, str.pRLEStart)) # MODE_END) =>
        LET i == LEDInit(build, mem, str.pRLEStart, str.iLen)
        IN  /\ str.pRLE = i.pRLE
            /\ str.iCount = i.iCount
            /\ str.lastOP = i.lastOP
            /\ Colour(str) = Colour(i)

(***************************************************************************)
(* C8                                                                      *)
(***************************************************************************)
\* C8: a control byte with mode bits 11 never governs a run of its own after
\* the first opcode: decoding it restarts at the program start.
C8_ModeEndRestarts ==
    opAt # str.pRLEStart => ModeOf(LoadedByte) # MODE_END

(***************************************************************************)
(* C9, C10: the pulse oscillator                                           *)
(***************************************************************************)
Lo(a, b) == IF a < b THEN a ELSE b
Hi(a, b) == IF a < b THEN b ELSE a

Starts(s) == <<s.sr, s.sg, s.sb>>
Ends(s) == <<s.er, s.eg, s.eb>>
Deltas(s) == <<s.dr, s.dg, s.db>>

\* the candidate value of channel ch, before the 8-bit store
Candidate(s, ch) ==
    IF s.iDir = 0 THEN Colour(s)[ch] + Deltas(s)[ch] ELSE Colour(s)[ch] - Deltas(s)[ch]

\* the candidate of a channel whose bounds differ lies outside them
Outside(s) ==
    \E ch \in 1..3 :
        /\ Starts(s)[ch] # Ends(s)[ch]
        /\ \/ Candidate(s, ch) < Lo(Starts(s)[ch], Ends(s)[ch])
           \/ Candidate(s, ch) > Hi(Starts(s)[ch], Ends(s)[ch])

\* C9: on a PULSE whose channels with equal start and end have delta 0, every
\* channel stays between its start and end value, no overshoot is stored.
C9_PulseWithinBounds ==
    (\A ch \in 1..3 : Starts(str)[ch] = Ends(str)[ch] => Deltas(str)[ch] = 0) =>
        \A ch \in 1..3 :
            /\ Colour(str)[ch] >= Lo(Starts(str)[ch], Ends(str)[ch])
            /\ Colour(str)[ch] <= Hi(Starts(str)[ch], Ends(str)[ch])

\* C10: LEDPulse flips the direction exactly when the candidate of a channel
\* with differing bounds lies outside its bounds; otherwise it stores the
\* candidate and keeps the direction.
C10_FlipIffOutside ==
    [][ last' = "pulse" =>
          /\ (str'.iDir # str.iDir) <=> Outside(str)
          /\ ~Outside(str) =>
                \A ch \in 1..3 : Colour(str')[ch] = Candidate(str, ch) % 256 ]_vars

(***************************************************************************)
(* C11, C12: reversal of the pulse                                         *)
(***************************************************************************)
\* the bound tests of LEDPulse set bChangeDir for the string s
Detected(s) ==
    \/ Crossed(s.sr, s.er, Candidate(s, 1))
    \/ Crossed(s.sg, s.eg, Candidate(s, 2))
    \/ CrossedBlue(s.sb, s.eb, Candidate(s, 3))

\* C11: a LEDPulse step whose bound tests detect a crossing flips the
\* direction and stores the bound just reached on all three channels: the end
\* colour after a forward step, the start colour after a reverse step; no
\* other step flips the direction.
C11_ReversalStoresBound ==
    [][ last' = "pulse" =>
          /\ Detected(str) <=> (str'.iDir = 1 - str.iDir)
          /\ Detected(str) =>
                Colour(str') = IF str.iDir = 0 THEN Ends(str) ELSE Starts(str) ]_vars

\* the red channel 0, +2, 3 just reversed: the candidate 4 overshot the end
\* bound 3 and the bound was stored, the other channels set to their ends too
C11_Witness ==
    /\ last = "pulse"
    /\ str.sr = 0 /\ str.dr = 2 /\ str.er = 3
    /\ str.iDir = 1
    /\ Colour(str) = Ends(str)
    /\ Starts(str) # Ends(str)

\* the string with two channels exchanged in colour, deltas, start and end
SwapRB(s) ==
    [ s EXCEPT !.r = s.b, !.b = s.r, !.dr = s.db, !.db = s.dr,
               !.sr = s.sb, !.sb = s.sr, !.er = s.eb, !.eb = s.er ]

SwapGB(s) ==
    [ s EXCEPT !.g = s.b, !.b = s.g, !.dg = s.db, !.db = s.dg,
               !.sg = s.sb, !.sb = s.sg, !.eg = s.eb, !.eb = s.eg ]

\* C12: exchanging the red and blue (or green and blue) components of a
\* pulse exchanges them in the result of every LEDPulse step: colour and
\* direction of the exchanged pulse follow the original step for step.
C12_ChannelsAlike ==
    build = "pulse" =>
        /\ LEDPulse(SwapRB(str)) = SwapRB(LEDPulse(str))
        /\ LEDPulse(SwapGB(str)) = SwapGB(LEDPulse(str))

(***************************************************************************)
(* C13, C14: PULSE opcodes in LEDShow and LEDStep                          *)
(***************************************************************************)
\* the loaded opcode is a PULSE that LEDInit decoded with its nine parameter
\* bytes: the cursor is ten bytes past its control byte, inside the program
PulseActive ==
    /\ build = "pulse"
    /\ str.lastOP = MODE_PULSE
    /\ str.pRLE = opAt + 10
    /\ str.pRLE < progLen

\* C13: a frame rendered while the loaded opcode is a PULSE holds the pulse
\* colour on every pixel, and the walk of LEDShow decodes nothing: its
\* cursor ends where it started, whatever the length field and chain length.
C13_PulseFillsFrame ==
    (last = "show" /\ PulseActive) =>
        /\ \A i \in 1..Len(sent) : sent[i] = Colour(str)
        /\ LEDShow(build, mem, str).loc.pRLE = str.pRLE

\* the program starts with a complete PULSE opcode of neopixel.ino
PulseFirst == build = "pulse" /\ SubSeq(mem, 1, 10) \in PulseOps

\* C14: whenever the PULSE opcode at the program start is the one just
\* decoded (by LEDInit, or by LEDStep after the END restart), start colour,
\* deltas and end colour are its nine parameter bytes, the direction is
\* forward, the colour is the start colour and the cursor is past the nine
\* parameter bytes.
C14_PulseDecoded ==
    (PulseFirst /\ opAt = 0 /\ k = 0) =>
        /\ Starts(str) = << ReadByte(mem, 1), ReadByte(mem, 2), ReadByte(mem, 3) >>
        /\ Deltas(str) = << ToSChar(ReadByte(mem, 4)), ToSChar(ReadByte(mem, 5)),
                            ToSChar(ReadByte(mem, 6)) >>
        /\ Ends(str) = << ReadByte(mem, 7), ReadByte(mem, 8), ReadByte(mem, 9) >>
        /\ str.iDir = 0
        /\ Colour(str) = Starts(str)
        /\ str.pRLE = 10

(***************************************************************************)
(* C15                                                                     *)
(***************************************************************************)
\* C15: LEDShow leaves every field of the caller's LEDSTRING as it was, so
\* a second LEDShow right after the first sends the same frame again.
C15_ShowKeepsState ==
    [][ last' = "show" =>
          /\ str' = str
          /\ last = "show" => (sent' = sent /\ wire' = wire) ]_vars

\* a full frame whose walk moved the local copy: other cursor, other colour
C15_Witness ==
    /\ last = "show"
    /\ str.iLen = MaxLEDs
    /\ LEDShow(build, mem, str).loc.pRLE # str.pRLE
    /\ Colour(LEDShow(build, mem, str).loc) # Colour(str)

(***************************************************************************)
(* C16, C17: the data line                                                 *)
(***************************************************************************)
\* bit n of the byte v (bit 7 is the most significant)
Bit(v, n) == (v \div (2 ^ n)) % 2

Wave(bit) == IF bit = 1 THEN ONE ELSE ZERO

\* the 24 waveforms of one colour: g7..g0, r7..r0, b7..b0
GrbWaves(c) ==
    [ j \in 1..24 |->
        IF j <= 8 THEN Wave(Bit(c[2], 8 - j))
        ELSE IF j <= 16 THEN Wave(Bit(c[1], 16 - j))
        ELSE Wave(Bit(c[3], 24 - j)) ]

\* C16: LEDSendColor(r, g, b) puts exactly 24 waveforms on the line, the
\* bytes in G, R, B order and each byte most significant bit first, a set
\* bit as the 1 waveform and a clear bit as the 0 waveform.
C16_SendColorIsGrbMsbFirst ==
    last = "send" => (Len(wire) = 24 /\ wire = GrbWaves(sent[1]))

\* r = 0x35, g = 0, b = 0xff: eight 0 waveforms, then 00110101, then eight 1
C16_Witness ==
    /\ last = "send"
    /\ sent = << <<53, 0, 255>> >>
    /\ wire = << ZERO, ZERO, ZERO, ZERO, ZERO, ZERO, ZERO, ZERO,
                 ZERO, ZERO, ONE, ONE, ZERO, ONE, ZERO, ONE,
                 ONE, ONE, ONE, ONE, ONE, ONE, ONE, ONE >>

\* C17: a frame of LEDShow is, per pixel, the 24 waveforms of its colour and
\* then the step logic, and after the last pixel one latch delay: the delay
\* happens once per call, at the end, and nothing else is on the line.
C17_FrameOrder ==
    last = "show" =>
        /\ Len(wire) = 25 * str.iLen + 1
        /\ \A i \in 0..(str.iLen - 1) :
              /\ SubSeq(wire, 25 * i + 1, 25 * i + 24) = GrbWaves(sent[i + 1])
              /\ wire[25 * i + 25] = STEP
        /\ wire[Len(wire)] = LATCH
        /\ \A j \in 1..(Len(wire) - 1) : wire[j] # LATCH

\* a full frame that changes colour on the way, ending with the delay
C17_Witness ==
    /\ last = "show"
    /\ str.iLen = MaxLEDs
    /\ sent[1] # sent[MaxLEDs]
    /\ wire[25 * MaxLEDs] = STEP
    /\ wire[25 * MaxLEDs + 1] = LATCH

(***************************************************************************)
(* C18                                                                     *)
(***************************************************************************)
RECURSIVE BitOr(_, _)
BitOr(a, b) ==
    IF a = 0 THEN b
    ELSE IF b = 0 THEN a
    ELSE (IF a % 2 = 1 \/ b % 2 = 1 THEN 1 ELSE 0) + 2 * BitOr(a \div 2, b \div 2)

\* C18: the mode and the length decoded from a control byte, put together
\* again with OR, give the byte back; the two masks share no bit and cover
\* all eight.
C18_ModeLengthRoundTrip ==
    /\ k = 0 => BitOr(str.lastOP, str.iCount) = LoadedByte
    /\ BitAnd(MODE_MASK, LENGTH_MASK) = 0
    /\ BitOr(MODE_MASK, LENGTH_MASK) = 255

\* the byte 0xbf (mode bits 10, all six length bits set) decoded again by
\* LEDStep after the restart
C18_Witness ==
    /\ last = "step"
    /\ opAt = 0 /\ k = 0
    /\ LoadedByte = 191
    /\ str.lastOP = MODE_GRADIENT
    /\ str.iCount = 63

(***************************************************************************)
(* C19                                                                     *)
(***************************************************************************)
Zero3 == <<0, 0, 0>>

\* C19: the state LEDInit leaves is made of the first opcode of the program
\* and the chain length alone: the cursor is just past that opcode, its run
\* is loaded, and every field the opcode does not load is zero, whatever the
\* structure held before.
C19_InitFromScratch ==
    last = "init" =>
        LET b == ReadByte(mem, 0)
        IN  /\ str.pRLEStart = 0
            /\ str.iLen \in Lens
            /\ str.lastOP = ModeOf(b)
            /\ str.iCount = FieldOf(b)
            /\ str.iDir = 0
            /\ ModeOf(b) = MODE_SIMPLE =>
                  /\ str.pRLE = 2
                  /\ Colour(str) = PaletteColour(ReadByte(mem, 1))
                  /\ Deltas(str) = Zero3 /\ Starts(str) = Zero3 /\ Ends(str) = Zero3
            /\ ModeOf(b) = MODE_GRADIENT =>
                  /\ str.pRLE = 5
                  /\ Colour(str) = PaletteColour(ReadByte(mem, 1))
                  /\ Deltas(str) = << ToSChar(ReadByte(mem, 2)), ToSChar(ReadByte(mem, 3)),
                                      ToSChar(ReadByte(mem, 4)) >>
                  /\ Starts(str) = Zero3 /\ Ends(str) = Zero3
            /\ (ModeOf(b) = MODE_PULSE /\ build = "pulse") =>
                  /\ str.pRLE = 10
                  /\ Colour(str) = << ReadByte(mem, 1), ReadByte(mem, 2), ReadByte(mem, 3) >>
                  /\ Starts(str) = Colour(str)
                  /\ Deltas(str) = << ToSChar(ReadByte(mem, 4)), ToSChar(ReadByte(mem, 5)),
                                      ToSChar(ReadByte(mem, 6)) >>
                  /\ Ends(str) = << ReadByte(mem, 7), ReadByte(mem, 8), ReadByte(mem, 9) >>
            /\ (ModeOf(b) = MODE_END \/ (ModeOf(b) = MODE_GAP /\ build = "gap")) =>
                  /\ str.pRLE = 1
                  /\ Colour(str) = Zero3
                  /\ Deltas(str) = Zero3 /\ Starts(str) = Zero3 /\ Ends(str) = Zero3

\* a SOLID program loaded again by loop() with a chain length of 0 (the first
\* LEDInit uses MaxLEDs): no delta and no pulse bound is left in the state
C19_Witness ==
    /\ last = "init"
    /\ str.iLen = 0
    /\ str.lastOP = MODE_SIMPLE
    /\ str.pRLE = 2
    /\ Deltas(str) = Zero3 /\ Ends(str) = Zero3

(***************************************************************************)
(* C20                                                                     *)
(***************************************************************************)
\* parameter bytes of the opcode with control byte b in the running sketch
ParamsOf(b) ==
    IF ModeOf(b) = MODE_SIMPLE THEN 1
    ELSE IF ModeOf(b) = MODE_GRADIENT THEN 4
    ELSE IF build = "pulse" THEN 9 ELSE 0

\* the bytes from address a up to the end of the n-byte program are complete
\* opcodes with all their parameter bytes followed by END as the last byte
RECURSIVE CompleteFrom(_, _)
CompleteFrom(a, n) ==
    IF a >= n THEN FALSE
    ELSE IF ReadByte(mem, a) = MODE_END THEN a = n - 1
    ELSE IF ModeOf(ReadByte(mem, a)) = MODE_END THEN FALSE
    ELSE CompleteFrom(a + 1 + ParamsOf(ReadByte(mem, a)), n)

\* one or more complete opcodes followed by END
WellFormedProgram == ReadByte(mem, 0) # MODE_END /\ CompleteFrom(0, progLen)

\* C20: on a well-formed program the cursor of the string, and the cursor
\* of the walk of every frame, never goes past the END byte.
C20_CursorInProgram ==
    WellFormedProgram =>
        /\ str.pRLE <= progLen - 1
        /\ last = "show" => LEDShow(build, mem, str).loc.pRLE <= progLen - 1

(***************************************************************************)
(* C21 .. C24: the cursor, the remaining length, one advance, the walk     *)
(***************************************************************************)
\* address c is the first byte of an opcode, or the END byte, of the program
\* read opcode by opcode from address a
RECURSIVE ControlByteFrom(_, _, _)
ControlByteFrom(a, c, n) ==
    IF a >= n THEN FALSE
    ELSE IF c = a THEN TRUE
    ELSE IF ModeOf(ReadByte(mem, a)) = MODE_END THEN FALSE
    ELSE ControlByteFrom(a + 1 + ParamsOf(ReadByte(mem, a)), c, n)

\* C21: on a well-formed program the cursor is at the first byte of an opcode
\* or at the END byte, never at a parameter byte, and right after the first
\* opcode was decoded (as by a restart) it is just past that opcode.
C21_CursorAtControlByte ==
    WellFormedProgram =>
        /\ ControlByteFrom(0, str.pRLE, progLen)
        /\ (opAt = 0 /\ k = 0) => str.pRLE = 1 + ParamsOf(ReadByte(mem, 0))

\* C22: the remaining length is within 0..64, in the string and in the copy
\* a frame has walked: it is never counted down below 0.
C22_CountInRange ==
    /\ str.iCount \in 0..64
    /\ LEDShow(build, mem, str).loc.iCount \in 0..64

\* a run of 64 pixels counted down to 0, the next advance is the decode
C22_Witness ==
    /\ last = "step"
    /\ FieldOf(LoadedByte) = 63
    /\ k = 63
    /\ str.iCount = 0
    /\ LEDStep(build, mem, str, 1).iCount >= 0

\* flash contents that differ from mem in every byte
OtherFlash == [ i \in 1..FlashSize |-> (mem[i] + 85) % 256 ]

\* C23: one advance taken while iCount > 0 lowers iCount by 1 and changes
\* nothing else but the colour of a GRADIENT run, which moves by the deltas;
\* it does not depend on any program byte.
C23_AdvanceInsideRun ==
    str.iCount > 0 =>
        LET t == LEDStep(build, mem, str, 1)
        IN  /\ t.iCount = str.iCount - 1
            /\ t.pRLE = str.pRLE
            /\ t.lastOP = str.lastOP
            /\ Deltas(t) = Deltas(str)
            /\ str.lastOP # MODE_GRADIENT => Colour(t) = Colour(str)
            /\ t = [ str EXCEPT !.iCount = t.iCount, !.r = t.r, !.g = t.g, !.b = t.b ]
            /\ t = LEDStep(build, OtherFlash, str, 1)

\* inside a SOLID run that follows a gradient: the deltas of the gradient
\* are still in the state and the advance taken here stays inside the run
C23_Witness ==
    /\ last = "step"
    /\ str.lastOP = MODE_SIMPLE
    /\ str.iCount > 0
    /\ Deltas(str) # Zero3
    /\ Ahead(1).k = k + 1
    /\ LEDStep(build, mem, str, 1).iCount = str.iCount - 1

\* C24: the colours a frame sends are the colours of the string read before
\* each of its advances: pixel i is the colour after i LEDStep(1) calls.
C24_ShowAgreesWithStep ==
    last = "show" =>
        \A i \in 1..Len(sent) :
            sent[i] = Colour(LEDStep(build, mem, str, i - 1))

\* a frame that starts inside a gradient run and walks through a restart
C24_Witness ==
    /\ last = "show"
    /\ str.iLen = MaxLEDs
    /\ str.lastOP = MODE_GRADIENT
    /\ str.iCount > 0
    /\ sent[2] # sent[1]
    /\ \E i \in 1..(MaxLEDs - 1) : Ahead(i).opAt = 0 /\ Ahead(i).k = 0

(***************************************************************************)
(* C25, C26: the pulse over many LEDPulse steps                            *)
(***************************************************************************)
\* a channel whose start and end differ and whose delta points from the start
\* towards the end
Moving(s) ==
    \E ch \in 1..3 :
        /\ Starts(s)[ch] # Ends(s)[ch]
        /\ Deltas(s)[ch] # 0
        /\ (Deltas(s)[ch] > 0) <=> (Ends(s)[ch] > Starts(s)[ch])

\* C25: a PULSE with a moving channel oscillates for ever: again and again a
\* LEDPulse step ends a forward phase on the end colour, and again and again
\* a LEDPulse step ends a reverse phase on the start colour.
C25_PulseOscillates ==
    Moving(str) =>
        /\ []<>(last = "pulse" /\ str.iDir = 1 /\ Colour(str) = Ends(str))
        /\ []<>(last = "pulse" /\ str.iDir = 0 /\ Colour(str) = Starts(str))

\* C26: over two LEDPulse steps that keep the direction, no channel rises and
\* then falls or falls and then rises: the stored bytes are compared.
C26_MonotoneBetweenFlips ==
    LET t1 == LEDPulse(str)
        t2 == LEDPulse(t1)
    IN  (t1.iDir = str.iDir /\ t2.iDir = str.iDir) =>
            \A ch \in 1..3 :
                /\ ~(Colour(t1)[ch] > Colour(str)[ch] /\ Colour(t2)[ch] < Colour(t1)[ch])
                /\ ~(Colour(t1)[ch] < Colour(str)[ch] /\ Colour(t2)[ch] > Colour(t1)[ch])

(***************************************************************************)
(* C27, C28: step counts add up, frames scroll                             *)
(***************************************************************************)
\* C27: LEDStep by a and then by b leaves the state that LEDStep by a + b
\* leaves, and LEDStep by 0 leaves the state as it is.
C27_StepCountsAdd ==
    /\ LEDStep(build, mem, str, 0) = str
    /\ \A a \in 0..MaxStep :
          \E sa \in { LEDStep(build, mem, str, a) } :
              \A b \in 0..MaxStep :
                  LEDStep(build, mem, sa, b) = LEDStep(build, mem, str, a + b)

\* the run ends here: one step of 2 decodes an opcode and continues its run,
\* as two steps of 1 do
C27_Witness ==
    /\ last = "step"
    /\ str.iCount = 0
    /\ LEDStep(build, mem, str, 1).pRLE # str.pRLE
    /\ LEDStep(build, mem, str, 1).iCount > 0
    /\ LEDStep(build, mem, str, 2) # LEDStep(build, mem, str, 1)
    /\ LEDStep(build, mem, str, 2)
          = LEDStep(build, mem, LEDStep(build, mem, str, 1), 1)

\* C28: the frame sent after one LEDStep(1) is the frame just sent moved by
\* one pixel: its pixel i is pixel i + 1 of the frame just sent.
C28_FramesScroll ==
    last = "show" =>
        LET next == LEDShow(build, mem, LEDStep(build, mem, str, 1)).out
        IN  /\ Len(next) = Len(sent)
            /\ \A i \in 1..(Len(sent) - 1) : next[i] = sent[i + 1]

\* a frame of the full chain length with more than one colour in it
C28_Witness ==
    /\ last = "show"
    /\ Len(sent) = MaxLEDs
    /\ sent[1] # sent[2]
    /\ sent[2] # sent[MaxLEDs]
    /\ LEDShow(build, mem, LEDStep(build, mem, str, 1)).out[1] = sent[2]

(***************************************************************************)
(* C29: LEDStream                                                          *)
(***************************************************************************)
OffOf(j) == ReadByte(mem, j) \div 16
OnOf(j) == ReadByte(mem, j) % 16

\* pixels of the stream bytes 0 .. n-1
RECURSIVE PixelsUpTo(_)
PixelsUpTo(n) == IF n <= 0 THEN 0 ELSE PixelsUpTo(n - 1) + OffOf(n - 1) + OnOf(n - 1)

\* the bytes were read in order up to stream.s, and for each of them first
\* its black pixels and then its coloured pixels were sent
StreamSentInOrder ==
    /\ Len(sent) = PixelsUpTo(stream.s)
    /\ Len(wire) = 24 * Len(sent)
    /\ \A j \in 0..(stream.s - 1) :
          \A i \in 1..(OffOf(j) + OnOf(j)) :
              sent[PixelsUpTo(j) + i] =
                  IF i <= OffOf(j) THEN <<0, 0, 0>>
                  ELSE <<stream.r, stream.g, stream.b>>

\* the loop has been left exactly if the byte read last has low nibble 0, and
\* no byte before it has
StreamStopsAtFirstZero ==
    /\ (stream.bOn = 0) <=> (stream.s > 0 /\ OnOf(stream.s - 1) = 0)
    /\ \A j \in 0..(stream.s - 2) : OnOf(j) # 0

\* C29: LEDStream reads its bytes in order and sends for each the black
\* pixels of the high nibble, then the coloured pixels of the low nibble; it
\* leaves its loop after the first byte whose low nibble is 0, that byte's
\* black pixels sent, and not before; if there is such a byte it does leave.
C29_StreamLaw ==
    /\ [](StreamSentInOrder /\ StreamStopsAtFirstZero)
    /\ (\E j \in 0..(MaxRead - 1) : OnOf(j) = 0) => <>(stream.bOn = 0)

\* LEDStream has returned after two bytes, the second being 0x10: one black
\* pixel was sent for it after the coloured pixels of the first byte
C29_Witness ==
    /\ stream.bOn = 0
    /\ stream.s = 2
    /\ ReadByte(mem, 0) = 18
    /\ ReadByte(mem, 1) = 16
    /\ sent = << <<0, 0, 0>>, <<1, 2, 3>>, <<1, 2, 3>>, <<0, 0, 0>> >>

====
